---------------------------- MODULE Spec2Model ----------------------------
(***************************************************************************)
(* Hand-cricket gesture service (MediaPipeService) as a state machine.     *)
(*                                                                         *)
(* Time is counted in ticks of 500 ms, the greatest common divisor of the  *)
(* delays the service uses (500, 1000, 2000, 3000 and 5000 ms).  The code  *)
(* reads Date.now() only to take differences, so the model keeps, instead  *)
(* of the clock, the time left of every pending callback and the age of    *)
(* every recorded instant; an age stops growing one tick past the largest  *)
(* value it is compared with.  A callback runs at the tick it is due,      *)
(* before time advances; steps taken at the same tick may interleave in    *)
(* any order.  Coordinates of landmarks are integers in hundredths.        *)
(* The 2-D canvas context is taken to exist (onResults line 173 passes).   *)
(***************************************************************************)
EXTENDS Integers, FiniteSets, Sequences, TLC

(* ----------------------------- bounds --------------------------------- *)
MaxStreak == 4
MaxStarts == 2
MaxCalibrations == 2
MaxAttempts == 6
MaxInFlight == 2
MaxScore == 3
MaxBalls == 2
MaxPresses == 2

(* ------------------------ program constants --------------------------- *)
gestureThreshold == 3
maxCameraAttempts == 5
processingFrameRate == 15
ClearDelay == 5
OutClearDelay == 6
\* the Game page: the countdown to the next ball, and its interval in ticks
CountdownFrom == 3
CountPeriod == 2
\* HandGestureDetector, in tenths of a second
ThrottleGap == 5
DeliverDelay == 2
CountInterval == 10
CountdownStart == 5
ProgressTime == 50
CompleteDelay == 3
UnlockDelay == 20
ServiceCalibration == 50
CoolDownDelay == 2
CalibrationDelay == 10
NoLandmarksDelay == 10
StuckInterval == 4
StuckThreshold == 6
RestartDelay == 1
RetryDelay == 2
InitRetryDelay == 1
LandmarkCount == 21

(* ------------------------ landmark geometry --------------------------- *)
Fingers == {"index", "middle", "ring", "pinky"}
AllFingers == Fingers \cup {"thumb"}

Abs(x) == IF x < 0 THEN -x ELSE x

\* isFingerExtended(tip, pip, mcp, wrist, isThumb): 0.05/0.1 and 0.07/0.07
\* are 5/10 and 7/7 hundredths.
isFingerExtended(tip, pip, isThumb) ==
    IF isThumb
    THEN (tip.y < pip.y - 5) /\ (Abs(tip.z - pip.z) < 10)
    ELSE (tip.y < pip.y - 7) /\ (Abs(tip.z - pip.z) < 7)

\* The PIP joint of every finger is put at y = 0.50, z = 0.
Pip == [y |-> 50, z |-> 0]

\* The coordinates a fingertip takes in the model: on either side of each
\* threshold of isFingerExtended.
TipChoices(f) ==
    IF f = "thumb"
    THEN [y : {44, 45}, z : {9, 10}]
    ELSE [y : {42, 43}, z : {6, 7}]

\* The hand observations the classifier is tried on: the number of landmarks
\* and the five fingertips.
Observations ==
    {[len |-> n, tips |-> t] :
        n \in {10, LandmarkCount},
        t \in {u \in [AllFingers -> [y : {42, 43, 44, 45}, z : {6, 7, 9, 10}]] :
                  \A f \in AllFingers : u[f] \in TipChoices(f)}}

Extended(lm, f) == isFingerExtended(lm.tips[f], Pip, f = "thumb")

extendedFingerCount(lm) == Cardinality({f \in Fingers : Extended(lm, f)})

\* line 341
OpenHandRule(n) == n >= 4

\* lines 240 and 297, the test of the number of landmarks left out
HasAnyLandmarks(lm) == TRUE

\* lines 240 and 297: landmarks && landmarks.length >= 21; an absent set has
\* length 0 here
HasAllLandmarks(lm) == lm.len >= LandmarkCount

\* lines 336-351 without the test extendedFingerCount === 0 of line 336
detectImprovedGestureThumbFirst(lm) ==
    IF ~HasAllLandmarks(lm) THEN 0
    ELSE IF Extended(lm, "thumb") THEN 6
    ELSE IF OpenHandRule(extendedFingerCount(lm)) THEN 5
    ELSE IF extendedFingerCount(lm) > 0 /\ extendedFingerCount(lm) <= 4
         THEN extendedFingerCount(lm)
    ELSE 0

\* detectImprovedGesture(landmarks), lines 295-352
detectImprovedGesture(lm) ==
    IF ~HasAllLandmarks(lm) THEN 0
    ELSE IF Extended(lm, "thumb") /\ extendedFingerCount(lm) = 0 THEN 6
    ELSE IF OpenHandRule(extendedFingerCount(lm)) THEN 5
    ELSE IF extendedFingerCount(lm) > 0 /\ extendedFingerCount(lm) <= 4
         THEN extendedFingerCount(lm)
    ELSE 0

\* A hand with exactly the fingers of ext extended, thumb up iff thumbUp.
Pose(ext, thumbUp) ==
    [len |-> LandmarkCount,
     tips |-> [f \in AllFingers |->
                 IF f = "thumb"
                 THEN [y |-> IF thumbUp THEN 44 ELSE 45, z |-> 9]
                 ELSE [y |-> IF f \in ext THEN 42 ELSE 43, z |-> 6]]]

ShortHand == [len |-> 10, tips |-> Pose({}, FALSE).tips]
AbsentHand == [len |-> 0, tips |-> Pose({}, FALSE).tips]

\* The observations frames carry in the service specification.
FramePoses ==
    { Pose({}, FALSE), Pose({"index"}, FALSE), Pose({"index", "middle"}, FALSE),
      ShortHand, AbsentHand }

\* results.multiHandLandmarks of one frame: no hand, or one hand
\* (maxNumHands is 1).
NoHand == [hands |-> 0]
Results == {NoHand} \cup {[hands |-> 1, lm |-> p] : p \in FramePoses}

\* detectImprovedGesture on the observations of the frames, computed once
GestureOfPose == [p \in FramePoses |-> detectImprovedGesture(p)]

(* ------------------------------ state --------------------------------- *)
VARIABLES
    libsLoaded,           \* window.Hands and window.Camera exist
    isReady,              \* initialize ran: gestureCallback and hands are set
    camera,               \* this.camera: "none", "running", "stopped", "failed"
    running,              \* started Camera instances, this.camera's included
    cameraStartAttempts,
    isCalibrating,
    calibrationData,      \* "null" or the baseline taken from a frame
    lastGestureDetected,
    gestureConfidence,    \* function: tracked codes -> streak
    landmarkAge,          \* Date.now() - lastLandmarkTime; -1 is lastLandmarkTime = 0
    noLandmarksTimeout,   \* the handle is not null
    timers,               \* pending setTimeout / setInterval callbacks
    watch,                \* history: which of the histories below is kept
    last,                 \* history: what the last step did
    runAll,               \* history: current run of equal codes, all processed frames
    runNZ,                \* history: current run of equal codes, nonzero frames only
    hold,                 \* history: code held since its event, and the event's age
    scene,                \* history: the frames showing index and middle fed
                          \* in a row to the cleared debouncer, the events they
                          \* caused and the value of the last
    noHandAge,            \* history: age of the first hand-less frame of a stall, or -1
    handAge,              \* history: age of the last frame with a hand since
                          \* the service was started, or -1
    signalAge,            \* history: age of the last restart signal since the
                          \* service was started, or -1
    obs,                  \* classifier specification: the observation
    cls,                  \* classifier specification: its code, -1 before
    sinceForward,         \* ms since lastFrameProcessed, up to the first value
                          \* that lets a frame through
    inFlight,             \* frames sent to the pose model, not yet analysed
    win,                  \* history: a window of 1 second that starts with a
                          \* forwarded frame, the frames forwarded in it and
                          \* the gap before the last forwarded frame
    game,                 \* the state of GameProvider; null is -1 (target),
                          \* 0 (choices) and "" (tossResult)
    gameTimers,           \* the pending timeouts of GameProvider and the
                          \* ticks of 500 ms left to each
    call,                 \* history: the last call of GameProvider
    runSince,             \* history: the run of equal nonzero codes since the
                          \* confidence state was last cleared, and the length
                          \* of the run before it
    firstCal,             \* history: the ticks since the first call of
                          \* startCalibration, -1 before it
    firedAge,             \* history: the ticks since the event that set the
                          \* last-fired code, -1 while that code is 0
    stopped,              \* history: stopCamera has returned and initialize
                          \* has not run since
    twin,                 \* a second service fed the same frames and calls,
                          \* whose calibrationData may differ: its baseline,
                          \* confidence state and last outputs
    detector,             \* the state of HandGestureDetector, and whether the
                          \* service it drives is calibrating
    detectorTimers,       \* the pending timeouts and intervals of
                          \* HandGestureDetector and the tenths of a second
                          \* left to each
    seen,                 \* history: the last step of HandGestureDetector,
                          \* the lock period of the latest press and the
                          \* accepted events not yet passed on
    page,                 \* the state of the Game page: countdown (null is
                          \* 0), showHandDetector, wonToss, and the ticks left
                          \* to the countdown interval (-1: none)
    held                  \* the gesture the detector holds for 200 ms, with
                          \* the state its handler was rendered with

svcVars ==
    <<libsLoaded, isReady, camera, running, cameraStartAttempts, isCalibrating,
      calibrationData, lastGestureDetected, gestureConfidence, landmarkAge,
      noLandmarksTimeout, timers>>
histVars == <<watch, last, runAll, runNZ, twin, runSince, firstCal, firedAge, stopped, hold, scene, noHandAge, handAge, signalAge>>
clsVars == <<obs, cls>>
limVars == <<sinceForward, inFlight, win>>
gameVars == <<game, gameTimers, call>>
compVars == <<detector, detectorTimers, seen>>
pageVars == <<page, held>>
idle == <<watch, obs, cls, limVars, gameVars, compVars, pageVars>>
serviceSide == <<svcVars, histVars, clsVars, limVars, compVars, pageVars>>
serviceSideOnly == <<svcVars, histVars, clsVars, limVars, pageVars>>
besidePage == <<svcVars, histVars, clsVars, limVars, compVars>>
vars == <<svcVars, histVars, clsVars, limVars, gameVars, compVars, pageVars>>

\* A pending callback and the ticks left until it runs.  cur marks the
\* interval this.stuckDetectionTimer names; stale (history) marks a callback
\* scheduled before a later reset.
Timer(kind, left) == [kind |-> kind, left |-> left, cur |-> FALSE, stale |-> FALSE]
StuckTimer(left) == [kind |-> "stuck", left |-> left, cur |-> TRUE, stale |-> FALSE]

\* op is "onResults", "stuckCheck", "startCalibration", "forward", "drop" or
\* "other"
Step(op) ==
    [op |-> op, code |-> -1, emitted |-> 0, signal |-> FALSE, stale |-> FALSE,
     short |-> FALSE]

EmptyConfidence == [k \in {} |-> 0]

NoRun == [code |-> 0, n |-> 0]
NoHold == [code |-> 0, age |-> 0, n |-> 0]
NoScene == [n |-> 0, events |-> 0, value |-> 0]
\* fromClear: the run began in the cleared state; pn: the length of the run
\* before it, where that one began in the cleared state
NoRunSince == [code |-> 0, n |-> 0, fromClear |-> TRUE, pn |-> 0]
NoTwin ==
    [calibrationData |-> "null", gestureConfidence |-> EmptyConfidence,
     lastGestureDetected |-> 0, code |-> -1, emitted |-> 0]

\* the time looked at after the first call of startCalibration: its window
FirstHorizon == CalibrationDelay

\* an age one tick later; cap is the largest value it is compared with
Older(age, cap) == IF age = -1 \/ age > cap THEN age ELSE age + 1

\* The histories are kept one group at a time: watch names the group.
Watching(w) == watch = w

\* The camera starts a behaviour counts: past maxCameraAttempts where the
\* attempts are what is looked at.
StartsBound == IF Watching("attempts") THEN MaxAttempts ELSE MaxStarts

\* line 9, the service constructed out of calibration
NotCalibratingAtStart == FALSE

\* line 9
CalibratingAtStart == TRUE

\* the service as constructed, lines 3-25
Constructed(w) ==
    /\ watch = w
    /\ libsLoaded \in BOOLEAN
    /\ isReady = FALSE
    /\ camera = "none"
    /\ running = 0
    /\ cameraStartAttempts = 0
    /\ isCalibrating = CalibratingAtStart
    /\ calibrationData = "null"
    /\ lastGestureDetected = 0
    /\ gestureConfidence = EmptyConfidence
    /\ landmarkAge = -1
    /\ noLandmarksTimeout = FALSE
    /\ timers = {}
    /\ last = Step("init")
    /\ runAll = NoRun
    /\ runNZ = NoRun
    /\ hold = NoHold
    /\ scene = NoScene
    /\ twin = NoTwin
    /\ runSince = NoRunSince
    /\ firstCal = -1
    /\ firedAge = -1
    /\ stopped = FALSE
    /\ noHandAge = -1
    /\ handAge = -1
    /\ signalAge = -1

\* line 79, with the interval rounded down and the comparison inclusive
ForwardsRounded(gap) == gap >= 1000 \div processingFrameRate

\* line 79
Forwards(gap) == gap * processingFrameRate > 1000

\* the gap one millisecond later
OlderGap(gap) == IF Forwards(gap) THEN gap ELSE gap + 1

NoWindow == [age |-> -1, n |-> 0, gap |-> -1]

\* lastFrameProcessed = 0, line 17: Date.now() is far past it
LimiterConstructed ==
    /\ sinceForward = CHOOSE g \in 0..1000 : Forwards(g) /\ ~Forwards(g - 1)
    /\ inFlight = 0
    /\ win = NoWindow

\* initialState and the useState calls of GameProvider, lines 427-453
initialState ==
    [gameState |-> "toss", playerScore |-> 0, aiScore |-> 0, innings |-> 1,
     target |-> -1, playerChoice |-> 0, aiChoice |-> 0, userBatting |-> FALSE,
     isOut |-> FALSE, tossResult |-> "", ballsPlayed |-> 0]

NoCall == [op |-> "none", move |-> 0, threw |-> FALSE, out |-> FALSE]

GameConstructed ==
    /\ game = initialState
    /\ gameTimers = {}
    /\ call = NoCall

\* the refs and state of HandGestureDetector as mounted, lines 24-31;
\* lastGestureTimeRef is 0, far in the past.  The service starts in
\* calibration mode (part_001, line 9).
DetectorMounted ==
    [disabled |-> FALSE, calibrationLock |-> TRUE, calibrationComplete |-> FALSE,
     countdown |-> CountdownStart, sinceGesture |-> ThrottleGap + 1,
     serviceCalibrating |-> TRUE, presses |-> 0]

NoSeen ==
    [op |-> "none", value |-> 0, accepted |-> FALSE, inLock |-> TRUE,
     pending |-> {}]

\* the Game page as mounted, part_000 lines 33-35
PageMounted ==
    [countdown |-> 0, showHandDetector |-> FALSE, wonToss |-> FALSE,
     interval |-> -1]

NoHeld == [value |-> -1]

PageConstructed ==
    /\ page = PageMounted
    /\ held = NoHeld

DetectorConstructed ==
    /\ detector = DetectorMounted
    /\ detectorTimers = {}
    /\ seen = NoSeen

Start(w) ==
    /\ Constructed(w)
    /\ LimiterConstructed
    /\ GameConstructed
    /\ DetectorConstructed
    /\ PageConstructed
    /\ obs = Pose({}, FALSE)
    /\ cls = -1

(* --------------------------- the debouncer ---------------------------- *)
Streak(gc, g) == IF g \in DOMAIN gc THEN gc[g] ELSE 0

\* processGestureWithConfidence, lines 268-273
ResetOthersNone(gc, g) == gc
ResetOthers(gc, g) == [k \in DOMAIN gc |-> IF k # g THEN 0 ELSE gc[k]]

\* line 276, an untracked code entering at 0
IncrementTracked(gc, g) ==
    [k \in DOMAIN gc \cup {g} |->
        IF k # g THEN gc[k]
        ELSE IF g \notin DOMAIN gc THEN 0
        ELSE IF gc[g] < MaxStreak THEN gc[g] + 1 ELSE MaxStreak]

\* line 276.  The code compares a streak with gestureThreshold only: the
\* model stops counting at MaxStreak, which is above it.
Increment(gc, g) ==
    [k \in DOMAIN gc \cup {g} |->
        IF k # g THEN gc[k]
        ELSE IF Streak(gc, g) < MaxStreak THEN Streak(gc, g) + 1 ELSE MaxStreak]

Counted(gc, g) == Increment(ResetOthers(gc, g), g)

\* lines 279-280, the threshold reached one frame early
ReachedThresholdEarly(gc, g, lastG) == gc[g] + 1 >= gestureThreshold /\ lastG # g

\* lines 279-280, the test of line 280 left out
ReachedThresholdAnyLast(gc, g, lastG) == gc[g] >= gestureThreshold

\* lines 279-280
ReachedThreshold(gc, g, lastG) == gc[g] >= gestureThreshold /\ lastG # g

(* ------------------------------ timers -------------------------------- *)
Due(kind) == {t \in timers : t.kind = kind /\ t.left = 0}

\* clearTimeout(this.noLandmarksTimeout), guarded by the handle
ClearNoLandmarks(ts) ==
    IF noLandmarksTimeout THEN {t \in ts : t.kind # "nolm"} ELSE ts

\* clearInterval(this.stuckDetectionTimer), guarded by the handle
ClearStuck(ts) == {t \in ts : ~(t.kind = "stuck" /\ t.cur)}

\* this.stuckDetectionTimer = window.setInterval(...): the handle moves to the
\* new interval, an interval it named before keeps running
SetStuck(ts) ==
    {[t EXCEPT !.cur = FALSE] : t \in ts} \cup {StuckTimer(StuckInterval)}

\* history only: the callbacks of ts, of the kinds a reset is to cancel, that
\* the reset of this step leaves pending
MarkStale(ts, kinds) ==
    {IF (Watching("reset") \/ Watching("watchdog")) /\ t.kind \in kinds
     THEN [t EXCEPT !.stale = TRUE] ELSE t : t \in ts}

\* camera.stop(), guarded by this.camera
StoppedCamera == IF camera = "running" THEN "stopped" ELSE camera
StoppedRunning == IF camera = "running" THEN running - 1 ELSE running

(* ------------------------------ actions ------------------------------- *)
\* initializeCamera(), lines 70-105, called with this.camera = cam and rn
\* started instances; ok is whether camera.start() resolves.  base are the
\* callbacks pending besides.
InitializeCamera(ok, cam, rn, base) ==
    /\ cameraStartAttempts < StartsBound
    /\ cameraStartAttempts' = cameraStartAttempts + 1
    /\ camera' = IF ok THEN "running" ELSE "failed"
    /\ running' = IF ok THEN rn + 1 ELSE rn
    /\ timers' = IF ~ok /\ cameraStartAttempts + 1 < maxCameraAttempts
                 THEN base \cup {Timer("initCam", RetryDelay)}
                 ELSE base

\* initialize(), lines 27-68; starts are the outcomes camera.start() may have
InitializeBody(base, starts) ==
    IF ~libsLoaded
    THEN /\ timers' = base \cup {Timer("initialize", InitRetryDelay)}
         /\ UNCHANGED <<isReady, camera, running, cameraStartAttempts>>
    ELSE /\ isReady' = TRUE
         /\ \E ok \in starts : InitializeCamera(ok, camera, running, SetStuck(base))

InitializeWith(starts) ==
    /\ InitializeBody(timers, starts)
    /\ last' = Step("other")
    /\ signalAge' = -1
    /\ handAge' = -1
    /\ UNCHANGED <<libsLoaded, isCalibrating, calibrationData, lastGestureDetected,
                   gestureConfidence, landmarkAge, noLandmarksTimeout>>
    /\ stopped' = FALSE
    /\ UNCHANGED <<runAll, runNZ, twin, runSince, firstCal, firedAge, hold, scene, noHandAge>>
    /\ UNCHANGED idle

Initialize == InitializeWith(BOOLEAN)

\* the 500 ms retry of initialize, line 34
InitializeRetryWith(starts) ==
    \E t \in Due("initialize") :
        /\ InitializeBody(timers \ {t}, starts)
        /\ last' = [Step("other") EXCEPT !.stale = t.stale]
        /\ signalAge' = -1
        /\ handAge' = -1
        /\ UNCHANGED <<libsLoaded, isCalibrating, calibrationData,
                       lastGestureDetected, gestureConfidence, landmarkAge,
                       noLandmarksTimeout>>
        /\ stopped' = FALSE
        /\ UNCHANGED <<runAll, runNZ, twin, runSince, firstCal, firedAge, hold, scene, noHandAge>>
        /\ UNCHANGED idle

InitializeRetry == InitializeRetryWith(BOOLEAN)

\* the scripts of the page finish loading
LoadLibs ==
    /\ ~libsLoaded
    /\ libsLoaded' = TRUE
    /\ last' = Step("other")
    /\ UNCHANGED <<isReady, camera, running, cameraStartAttempts, isCalibrating,
                   calibrationData, lastGestureDetected, gestureConfidence,
                   landmarkAge, noLandmarksTimeout, timers>>
    /\ UNCHANGED <<runAll, runNZ, twin, runSince, firstCal, firedAge, stopped, hold, scene, noHandAge, handAge, signalAge>>
    /\ UNCHANGED idle

\* line 133
CalibrationResetNone(gc) == gc
CalibrationReset(gc) == EmptyConfidence

\* the second service after startCalibration(), lines 129-134
TwinCalibrating(tw) ==
    [tw EXCEPT !.calibrationData = "null",
               !.gestureConfidence = CalibrationReset(tw.gestureConfidence),
               !.lastGestureDetected = 0]

\* startCalibration(), lines 129-142
StartCalibration ==
    /\ isCalibrating' = TRUE
    /\ calibrationData' = "null"
    /\ gestureConfidence' = CalibrationReset(gestureConfidence)
    /\ lastGestureDetected' = 0
    /\ Cardinality({t \in timers : t.kind = "calEnd"}) < MaxCalibrations
    /\ timers' = MarkStale(timers, {"cooldown"}) \cup {Timer("calEnd", CalibrationDelay)}
    /\ last' = Step("startCalibration")
    /\ hold' = NoHold
    /\ scene' = NoScene
    /\ twin' = IF Watching("twin") THEN TwinCalibrating(twin) ELSE twin
    /\ runSince' = NoRunSince
    /\ firstCal' = IF Watching("first") /\ firstCal = -1 THEN 0 ELSE firstCal
    /\ firedAge' = -1
    /\ UNCHANGED <<libsLoaded, isReady, camera, running, cameraStartAttempts,
                   landmarkAge, noLandmarksTimeout>>
    /\ UNCHANGED <<runAll, runNZ, stopped, noHandAge, handAge, signalAge>>
    /\ UNCHANGED idle

\* the callback of startCalibration, lines 138-141
CalibrationEnd ==
    \E t \in Due("calEnd") :
        /\ isCalibrating' = FALSE
        /\ timers' = timers \ {t}
        /\ last' = Step("other")
        /\ UNCHANGED <<libsLoaded, isReady, camera, running, cameraStartAttempts,
                       calibrationData, lastGestureDetected, gestureConfidence,
                       landmarkAge, noLandmarksTimeout>>
        /\ UNCHANGED <<runAll, runNZ, twin, runSince, firstCal, firedAge, stopped, hold, scene, noHandAge, handAge, signalAge>>
        /\ UNCHANGED idle

\* stopCamera(), lines 148-162
StopCamera ==
    /\ camera' = StoppedCamera
    /\ running' = StoppedRunning
    /\ timers' = MarkStale(ClearNoLandmarks(ClearStuck(timers)), {"stuck", "nolm", "initCam"})
    /\ noLandmarksTimeout' = FALSE
    /\ last' = Step("other")
    /\ hold' = NoHold
    /\ scene' = NoScene
    /\ noHandAge' = -1
    /\ handAge' = -1
    /\ signalAge' = -1
    /\ UNCHANGED <<libsLoaded, isReady, cameraStartAttempts, isCalibrating,
                   calibrationData, lastGestureDetected, gestureConfidence,
                   landmarkAge>>
    /\ stopped' = Watching("watchdog")
    /\ UNCHANGED <<runAll, runNZ, twin, runSince, firstCal, firedAge>>
    /\ UNCHANGED idle

\* history: the run of equal codes after one more frame classified c
Run(run, c) ==
    IF run.code = c /\ run.n > 0
    THEN [code |-> c, n |-> IF run.n < 3 THEN run.n + 1 ELSE run.n]
    ELSE [code |-> c, n |-> 1]

\* lines 287-291, no callback scheduled while one is pending
ScheduledIfNone(ts, fire) ==
    IF fire /\ ~\E t \in ts : t.kind = "cooldown"
    THEN ts \cup {Timer("cooldown", CoolDownDelay)} ELSE ts

\* lines 287-291: the cool-down callback of an event
Scheduled(ts, fire) ==
    IF fire THEN ts \cup {Timer("cooldown", CoolDownDelay)} ELSE ts

\* history: the run since the last clearing after one more frame classified
\* with the nonzero code c
RunSince(run, c) ==
    IF run.code = c /\ run.n > 0
    THEN [run EXCEPT !.n = IF run.n < 3 THEN run.n + 1 ELSE run.n]
    ELSE [code |-> c, n |-> 1, fromClear |-> run.n = 0,
          pn |-> IF run.fromClear THEN run.n ELSE 0]

\* index and middle extended, the other fingers not, the thumb not up
TwoFingers == Pose({"index", "middle"}, FALSE)

\* calibration inactive, cleared confidence state, no cool-down pending
Cleared ==
    /\ ~isCalibrating
    /\ DOMAIN gestureConfidence = {}
    /\ lastGestureDetected = 0
    /\ ~\E t \in timers : t.kind = "cooldown"

\* line 216, every code passing
QualifiesAny(gesture) == TRUE

\* line 216
Qualifies(gesture) == gesture > 0

\* lines 295-352 with thresholds taken from the calibration baseline
detectCalibratedAdaptive(baseline, lm) ==
    IF baseline = "null" THEN GestureOfPose[lm]
    ELSE IF GestureOfPose[lm] = 6 THEN 6 ELSE 0

\* detectImprovedGesture(landmarks) in a service whose calibrationData is
\* baseline, lines 295-352: the thresholds are literals
detectCalibrated(baseline, lm) == GestureOfPose[lm]

\* the second service after onResults(r), lines 164-237
TwinAfterFrame(tw, calibrating, r) ==
    LET hand == r.hands > 0
        gesture == IF hand THEN detectCalibrated(tw.calibrationData, r.lm) ELSE 0
        processed == ~calibrating
        counts == hand /\ processed /\ Qualifies(gesture)
        gc == IF counts THEN Counted(tw.gestureConfidence, gesture)
              ELSE tw.gestureConfidence
        fire == counts /\ ReachedThreshold(gc, gesture, tw.lastGestureDetected)
    IN  [calibrationData |->
             IF hand /\ calibrating /\ HasAllLandmarks(r.lm)
             THEN "baseline" ELSE tw.calibrationData,
         gestureConfidence |-> gc,
         lastGestureDetected |-> IF fire THEN gesture ELSE tw.lastGestureDetected,
         code |-> IF processed THEN gesture ELSE -1,
         emitted |-> IF fire THEN gesture ELSE 0]

\* onResults(results), lines 164-237, with collectCalibrationData and
\* processGestureWithConfidence.  Frames are delivered while a started camera
\* feeds the pose model.
OnResults(r) ==
    LET hand == r.hands > 0
        gesture == IF hand THEN detectCalibrated(calibrationData, r.lm) ELSE 0
        processed == ~isCalibrating
        counts == hand /\ processed /\ Qualifies(gesture)
        gc == IF counts THEN Counted(gestureConfidence, gesture) ELSE gestureConfidence
        fire == counts /\ ReachedThreshold(gc, gesture, lastGestureDetected)
        t1 == ClearNoLandmarks(timers)
        t2 == IF hand THEN t1 ELSE t1 \cup {Timer("nolm", NoLandmarksDelay)}
        t3 == Scheduled(t2, fire)
    IN  /\ isReady
        /\ running > 0
        /\ landmarkAge' = 0
        /\ noLandmarksTimeout' = ~hand
        /\ calibrationData' =
              IF hand /\ isCalibrating /\ HasAllLandmarks(r.lm)
              THEN "baseline" ELSE calibrationData
        /\ gestureConfidence' = gc
        /\ lastGestureDetected' = IF fire THEN gesture ELSE lastGestureDetected
        /\ timers' = t3
        /\ last' = [Step("onResults") EXCEPT
                      !.code = IF processed THEN gesture ELSE -1,
                      !.emitted = IF fire THEN gesture ELSE 0,
                      !.short = Watching("runs") /\ hand
                                   /\ r.lm.len < LandmarkCount]
        /\ runAll' = IF Watching("runs") /\ processed
                     THEN Run(runAll, gesture) ELSE runAll
        /\ runNZ' = IF Watching("runs") /\ counts
                    THEN Run(runNZ, gesture) ELSE runNZ
        /\ hold' = IF ~Watching("hold") THEN hold
                   ELSE IF fire
                   THEN [code |-> gesture, age |-> 0,
                         n |-> IF hold.code = gesture THEN 2 ELSE 1]
                   ELSE IF processed /\ gesture # hold.code THEN NoHold
                   ELSE hold
        /\ scene' = IF ~Watching("hold") THEN scene
                    ELSE IF processed /\ hand /\ r.lm = TwoFingers
                            /\ (scene.n \in 1..3 \/ Cleared)
                    THEN [n |-> scene.n + 1,
                          events |-> scene.events + (IF fire THEN 1 ELSE 0),
                          value |-> IF fire THEN gesture ELSE scene.value]
                    ELSE NoScene
        /\ twin' = IF Watching("twin") THEN TwinAfterFrame(twin, isCalibrating, r)
                   ELSE twin
        /\ runSince' = IF Watching("streak") /\ counts
                       THEN RunSince(runSince, gesture) ELSE runSince
        /\ noHandAge' = IF ~Watching("watchdog") THEN noHandAge
                        ELSE IF hand THEN -1
                        ELSE IF noHandAge = -1 THEN 0 ELSE noHandAge
        /\ handAge' = IF Watching("watchdog") /\ hand THEN 0 ELSE handAge
        /\ UNCHANGED <<libsLoaded, isReady, camera, running, cameraStartAttempts,
                       isCalibrating>>
        /\ firedAge' = IF Watching("fired") /\ fire THEN 0 ELSE firedAge
        /\ UNCHANGED <<signalAge, firstCal, stopped>>
        /\ UNCHANGED idle

Frame == \E r \in Results : OnResults(r)

\* line 289: the last-fired code after the cool-down, lastG before it
AfterCoolDownKept(lastG) == lastG
AfterCoolDown(lastG) == 0

\* the second service after the cool-down callback, lines 287-291
TwinCooled(tw) ==
    [tw EXCEPT !.lastGestureDetected = AfterCoolDown(tw.lastGestureDetected),
               !.gestureConfidence = EmptyConfidence]

\* the cool-down callback, lines 287-291
CoolDownExpired ==
    \E t \in Due("cooldown") :
        /\ lastGestureDetected' = AfterCoolDown(lastGestureDetected)
        /\ gestureConfidence' = EmptyConfidence
        /\ timers' = timers \ {t}
        /\ last' = [Step("other") EXCEPT !.stale = t.stale]
        /\ scene' = NoScene
        /\ twin' = IF Watching("twin") THEN TwinCooled(twin) ELSE twin
        /\ runSince' = NoRunSince
        /\ UNCHANGED <<libsLoaded, isReady, camera, running, cameraStartAttempts,
                       isCalibrating, calibrationData, landmarkAge,
                       noLandmarksTimeout>>
        /\ firedAge' = -1
        /\ UNCHANGED <<runAll, runNZ, firstCal, stopped, hold, noHandAge, handAge, signalAge>>
        /\ UNCHANGED idle

\* history of a step that issues the restart-capture signal
Signalled(op, t) ==
    /\ last' = [Step(op) EXCEPT !.stale = t.stale, !.signal = TRUE]
    /\ signalAge' = IF Watching("watchdog") THEN 0 ELSE signalAge
    /\ noHandAge' = -1
    /\ hold' = NoHold
    /\ scene' = NoScene

\* line 112
IsStuck == landmarkAge > StuckThreshold /\ landmarkAge # -1

\* one run of the interval callback of setupStuckDetection, lines 109-126
StuckCheck ==
    \E t \in Due("stuck") :
        LET again == (timers \ {t}) \cup {[t EXCEPT !.left = StuckInterval]}
        IN  IF IsStuck
            THEN /\ camera' = StoppedCamera
                 /\ running' = StoppedRunning
                 /\ noLandmarksTimeout' = FALSE
                 /\ timers' = ClearNoLandmarks(again)
                                 \cup {Timer("initCam", RestartDelay)}
                 /\ Signalled("stuckCheck", t)
                 /\ UNCHANGED <<libsLoaded, isReady, cameraStartAttempts,
                                isCalibrating, calibrationData, lastGestureDetected,
                                gestureConfidence, landmarkAge>>
                 /\ UNCHANGED <<runAll, runNZ, twin, runSince, firstCal, firedAge, stopped, handAge>>
                 /\ UNCHANGED idle
            ELSE /\ timers' = again
                 /\ last' = [Step("stuckCheck") EXCEPT !.stale = t.stale]
                 /\ UNCHANGED <<libsLoaded, isReady, camera, running,
                                cameraStartAttempts, isCalibrating, calibrationData,
                                lastGestureDetected, gestureConfidence, landmarkAge,
                                noLandmarksTimeout>>
                 /\ UNCHANGED <<runAll, runNZ, twin, runSince, firstCal, firedAge, stopped, hold, scene, noHandAge, handAge, signalAge>>
                 /\ UNCHANGED idle

\* the callback of the no-landmarks timeout, lines 226-232
NoLandmarksExpired ==
    \E t \in Due("nolm") :
        /\ camera' = StoppedCamera
        /\ running' = StoppedRunning
        /\ timers' = (timers \ {t}) \cup {Timer("initCam", RestartDelay)}
        /\ Signalled("other", t)
        /\ UNCHANGED <<libsLoaded, isReady, cameraStartAttempts, isCalibrating,
                       calibrationData, lastGestureDetected, gestureConfidence,
                       landmarkAge, noLandmarksTimeout>>
        /\ UNCHANGED <<runAll, runNZ, twin, runSince, firstCal, firedAge, stopped, handAge>>
        /\ UNCHANGED idle

\* a delayed initializeCamera(): lines 94, 102, 124 and 231
DelayedInitializeCamera ==
    \E t \in Due("initCam") : \E ok \in BOOLEAN :
        /\ InitializeCamera(ok, camera, running, timers \ {t})
        /\ last' = [Step("other") EXCEPT !.stale = t.stale]
        /\ UNCHANGED <<libsLoaded, isReady, isCalibrating, calibrationData,
                       lastGestureDetected, gestureConfidence, landmarkAge,
                       noLandmarksTimeout>>
        /\ UNCHANGED <<runAll, runNZ, twin, runSince, firstCal, firedAge, stopped, hold, scene, noHandAge, handAge, signalAge>>
        /\ UNCHANGED idle

\* 500 ms pass; every callback due has run
Tick ==
    /\ \A t \in timers : t.left > 0
    /\ timers' = {[t EXCEPT !.left = t.left - 1] : t \in timers}
    /\ landmarkAge' = Older(landmarkAge, StuckThreshold)
    /\ last' = Step("other")
    /\ hold' = IF hold.code = 0 THEN hold
               ELSE [hold EXCEPT !.age = Older(hold.age, CoolDownDelay)]
    /\ noHandAge' = Older(noHandAge, NoLandmarksDelay)
    /\ handAge' = Older(handAge, StuckThreshold)
    /\ signalAge' = Older(signalAge, StuckThreshold)
    /\ UNCHANGED <<libsLoaded, isReady, camera, running, cameraStartAttempts,
                   isCalibrating, calibrationData, lastGestureDetected,
                   gestureConfidence, noLandmarksTimeout>>
    /\ firstCal' = Older(firstCal, FirstHorizon)
    /\ firedAge' = Older(firedAge, CoolDownDelay)
    /\ UNCHANGED <<runAll, runNZ, twin, runSince, stopped, scene>>
    /\ UNCHANGED idle

\* Tick while the camera is live: while a started camera feeds the pose model
\* (at 15 frames a second) a frame has been handled since the last tick.
TickLive ==
    /\ (isReady /\ running > 0) => landmarkAge = 0
    /\ Tick

\* the component mounts: the first call of initialize, and its retry while
\* the scripts load; the camera starts at once
Mount ==
    /\ ~isReady
    /\ InitializeWith({TRUE})

MountRetry == InitializeRetryWith({TRUE})

\* a calibration started while none is running
Calibrate ==
    /\ ~\E t \in timers : t.kind = "calEnd"
    /\ StartCalibration

\* The debouncer: the service is initialised once and calibrated again and
\* again, its camera starts and is live, any frames arrive.
NextDebounce ==
    \/ Mount
    \/ MountRetry
    \/ LoadLibs
    \/ Calibrate
    \/ CalibrationEnd
    \/ Frame
    \/ CoolDownExpired
    \/ StuckCheck
    \/ TickLive

\* with the history of the runs of equal codes
Spec == Start("runs") /\ [][NextDebounce]_vars

\* with the history of the runs since the last clearing
SpecStreak == Start("streak") /\ [][NextDebounce]_vars

\* with the time since the event of the last-fired code
SpecFired == Start("fired") /\ [][NextDebounce]_vars

\* with the history of the held pose
SpecHold == Start("hold") /\ [][NextDebounce]_vars

\* the same, where time passes, every callback due runs and frames keep
\* arriving
SpecLive ==
    /\ SpecHold
    /\ WF_vars(TickLive)
    /\ WF_vars(Frame)
    /\ WF_vars(CoolDownExpired)
    /\ WF_vars(CalibrationEnd)
    /\ WF_vars(StuckCheck)
    /\ WF_vars(MountRetry)

\* the second service is taken in another state that differs from the
\* first one's only in calibrationData (a MediaPipeLandmark[] or null,
\* line 13)
OtherBaseline ==
    /\ \E b \in {"null", "baseline"} :
          /\ b # twin.calibrationData
          /\ twin' = [twin EXCEPT !.calibrationData = b]
    /\ UNCHANGED <<svcVars, watch, last, runAll, runNZ, runSince, firstCal, firedAge, stopped, hold, scene, noHandAge,
                   handAge, signalAge, clsVars, limVars, gameVars, compVars, pageVars>>

\* The debouncer and a second service beside it, fed the same frames and
\* calls.
NextTwin ==
    \/ NextDebounce
    \/ OtherBaseline

SpecTwin == Start("twin") /\ [][NextTwin]_vars

\* The resets: as above, and calibrations are started while one is running.
NextReset ==
    \/ Mount
    \/ MountRetry
    \/ LoadLibs
    \/ StartCalibration
    \/ CalibrationEnd
    \/ Frame
    \/ CoolDownExpired
    \/ StuckCheck
    \/ TickLive

SpecReset == Start("reset") /\ [][NextReset]_vars

\* time passes up to FirstHorizon after the first call of startCalibration
TickFirst ==
    /\ firstCal < FirstHorizon
    /\ TickLive

\* The first calibration: the resets, up to the end of the window of the
\* first call of startCalibration.
NextFirst ==
    \/ Mount
    \/ MountRetry
    \/ LoadLibs
    \/ StartCalibration
    \/ CalibrationEnd
    \/ Frame
    \/ StuckCheck
    \/ TickFirst

SpecFirst == Start("first") /\ [][NextFirst]_vars

\* The watchdog and the camera: the service is initialised and stopped at any
\* time, frames arrive or stay away; no calibration is started, so the
\* debouncer stays idle.
NextWatchdog ==
    \/ Initialize
    \/ InitializeRetry
    \/ LoadLibs
    \/ DelayedInitializeCamera
    \/ StopCamera
    \/ Frame
    \/ StuckCheck
    \/ NoLandmarksExpired
    \/ Tick

SpecWatchdog == Start("watchdog") /\ [][NextWatchdog]_vars

\* initialize is called once, whatever the camera does
FirstInitialize ==
    /\ ~isReady
    /\ ~\E t \in timers : t.kind = "initialize"
    /\ Initialize

\* The camera starts: the service is initialised once, its camera starts or
\* fails to, frames arrive or stay away, the watchdog runs.
NextAttempts ==
    \/ FirstInitialize
    \/ InitializeRetry
    \/ LoadLibs
    \/ DelayedInitializeCamera
    \/ Frame
    \/ StuckCheck
    \/ NoLandmarksExpired
    \/ Tick

SpecAttempts == Start("attempts") /\ [][NextAttempts]_vars

(* ----------------------- claims: the debouncer ------------------------ *)
\* C1 as stated: an event for g is emitted only on a processed frame
\* classified g whose two immediately preceding processed frames, frames
\* classified 0 and frames without a hand included, were classified g.
C1_ThreeConsecutiveOfAll ==
    last.emitted # 0 => (runAll.code = last.emitted /\ runAll.n >= 3)

\* C1 as amended: an event for g is emitted only on a processed frame
\* classified g, and the two latest processed frames with a nonzero code
\* before it were classified g too; frames classified 0 and frames without a
\* hand do not break the streak.
C1_ThreeConsecutiveNonzero ==
    last.emitted # 0 =>
        /\ last.code = last.emitted
        /\ runNZ.code = last.emitted
        /\ runNZ.n >= 3

\* an event was emitted on a frame that follows a frame classified otherwise
C1_Witness ==
    last.emitted = 2 /\ runAll = [code |-> 2, n |-> 1] /\ runNZ.n = 3

\* C15: a frame whose landmark set is absent or has fewer than 21 entries is
\* classified 0 where frames are classified, emits no event and leaves the
\* streaks, the last-fired code and the calibration baseline unchanged.
C15_MalformedIgnored ==
    [][last'.short =>
          /\ last'.emitted = 0
          /\ last'.code = IF isCalibrating THEN -1 ELSE 0
          /\ UNCHANGED <<gestureConfidence, lastGestureDetected, calibrationData>>]_vars

\* such a frame was handled while a streak of 2 was standing
C15_Witness ==
    /\ last.short
    /\ last.code = 0
    /\ \E k \in DOMAIN gestureConfidence : gestureConfidence[k] = 2

\* C17: immediately after startCalibration, whatever the state before, the
\* streaks are empty, the last-fired code is none and the baseline is absent.
C17_CalibrationClears ==
    last.op = "startCalibration" =>
        /\ DOMAIN gestureConfidence = {}
        /\ lastGestureDetected = 0
        /\ calibrationData = "null"

\* startCalibration was called within the cool-down of an event
C17_Witness ==
    last.op = "startCalibration" /\ \E t \in timers : t.kind = "cooldown"

\* C19: a processed frame classified 0, or without a hand, changes neither a
\* streak nor the last-fired code.
C19_ZeroFramesKeepStreaks ==
    [][(last'.op = "onResults" /\ last'.code = 0)
          => UNCHANGED <<gestureConfidence, lastGestureDetected>>]_vars

\* such a frame was handled while a streak of 2 was standing beside the code
\* that fired last
C19_Witness ==
    /\ last.op = "onResults"
    /\ last.code = 0
    /\ ~last.short
    /\ lastGestureDetected # 0
    /\ \E k \in DOMAIN gestureConfidence : gestureConfidence[k] = 2

\* C20: a service whose calibration baseline differs, fed the same frames
\* and calls, has the same streak counters and last-fired code, analyses
\* every frame to the same gesture code and emits the same events.
C20_BaselineIndependent ==
    /\ twin.gestureConfidence = gestureConfidence
    /\ twin.lastGestureDetected = lastGestureDetected
    /\ last.op = "onResults" =>
          (twin.code = last.code /\ twin.emitted = last.emitted)

C20_Witness ==
    /\ last.op = "onResults"
    /\ last.emitted # 0
    /\ twin.emitted = last.emitted
    /\ twin.calibrationData # calibrationData

\* C21: an event for g is emitted only when at least 3 frames classified g
\* have been processed since the last frame classified with another nonzero
\* code and since the confidence state was last cleared; in particular the
\* frames g, g, h from the cleared state emit no event.
C21_EventNeedsThree ==
    /\ last.emitted # 0 =>
          (runSince.code = last.emitted /\ runSince.n >= 3)
    /\ (last.op = "onResults" /\ last.code = runSince.code
          /\ runSince.n = 1 /\ runSince.pn = 2) => last.emitted = 0

\* the frame h of g, g, h from the cleared state has been processed
C21_Witness ==
    /\ last.op = "onResults"
    /\ last.code = runSince.code
    /\ runSince = [code |-> 1, n |-> 1, fromClear |-> FALSE, pn |-> 2]
    /\ last.emitted = 0

\* C22: a frame classified with the nonzero code g outside calibration sets
\* the streak of every other tracked code to 0 and adds 1 to the streak of g
\* (from 0 if g was untracked; the model stops counting at MaxStreak), and
\* the threshold test reads the streak so updated.
C22_StreakUpdate ==
    [][(last'.op = "onResults" /\ last'.code > 0) =>
          /\ DOMAIN gestureConfidence' = DOMAIN gestureConfidence \cup {last'.code}
          /\ \A k \in DOMAIN gestureConfidence' :
                gestureConfidence'[k] =
                    IF k # last'.code THEN 0
                    ELSE IF Streak(gestureConfidence, k) < MaxStreak
                    THEN Streak(gestureConfidence, k) + 1 ELSE MaxStreak
          /\ (last'.emitted # 0) <=>
                 /\ gestureConfidence'[last'.code] >= gestureThreshold
                 /\ lastGestureDetected # last'.code
       ]_vars

\* an event fired on the frame that took the streak of 2 to 3, the streak of
\* code 1 being tracked at 0
C22_Witness ==
    /\ last.op = "onResults"
    /\ last.emitted = 2
    /\ DOMAIN gestureConfidence = {1, 2}
    /\ gestureConfidence[1] = 0
    /\ gestureConfidence[2] = gestureThreshold

\* C23: until 5 seconds have passed since the first call of
\* startCalibration, the time before that call included, the service is in
\* calibration mode and emits no gesture event.
C23_NoEventBeforeFirstWindow ==
    firstCal < CalibrationDelay => (isCalibrating /\ last.emitted = 0)

\* a frame with a gesture is handled inside the window of the first call,
\* after a second call
C23_Witness ==
    /\ firstCal \in 1..(CalibrationDelay - 1)
    /\ Cardinality({t \in timers : t.kind = "calEnd"}) = 2
    /\ last.op = "onResults"
    /\ calibrationData = "baseline"

\* C24: whenever the last-fired code is nonzero, the event that set it is at
\* most 1 second old and the cool-down callback of that event is pending,
\* due 1 second after the event: no code stays suppressed for longer.
C24_CoolDownPending ==
    lastGestureDetected # 0 =>
        /\ firedAge \in 0..CoolDownDelay
        /\ \E t \in timers :
              t.kind = "cooldown" /\ t.left = CoolDownDelay - firedAge

\* a code is suppressed while the callback of an earlier event is due too
C24_Witness ==
    /\ lastGestureDetected # 0
    /\ firedAge = 1
    /\ \E t \in timers : t.kind = "cooldown" /\ t.left = 0






\* C18: with calibration inactive, cleared confidence state and no cool-down
\* pending, 3 consecutive frames showing index and middle emit exactly one
\* event, of value 2, on the third; a 4th such frame within the cool-down
\* emits no second event.
C18_ThreeFramesOneEvent ==
    /\ scene.n \in {1, 2} => scene.events = 0
    /\ scene.n = 3 => (scene.events = 1 /\ scene.value = 2)
    /\ scene.n = 4 => (scene.events = 1 /\ scene.value = 2)

\* the fourth frame was handled before the cool-down callback ran
C18_Witness == scene.n = 4 /\ last.op = "onResults" /\ last.emitted = 0

\* C2: if g was emitted and every processed frame since was classified g, no
\* second event for g is emitted before 1000 ms have passed.
C2_NoRefireInCoolDown ==
    [][(last'.emitted # 0 /\ hold.code = last'.emitted)
          => hold.age >= CoolDownDelay]_vars

\* C3: if g was emitted and every processed frame since is classified g, frames
\* keep arriving and no calibration is started, a further event for g is
\* emitted.  hold.n is 1 from the event until a frame is classified otherwise
\* or a calibration starts (0) or the further event is emitted (2).
C3_RefiresAfterCoolDown == (hold.n = 1) ~> (hold.n # 1)

\* the held pose has fired again, a cool-down after its first event
C3_Witness ==
    hold.n = 2 /\ hold.age = 0 /\ last.emitted = hold.code

(* ------------------ claims: calibration and watchdog ------------------ *)
\* C6: during the 5 seconds that follow any startCalibration call, whatever
\* calls came before, the service is calibrating and emits no event.  A
\* calEnd callback with ticks left marks a call less than 5 seconds ago.
C6_CalibrationWindow ==
    (\E t \in timers : t.kind = "calEnd" /\ t.left > 0)
        => (isCalibrating /\ last.emitted = 0)

\* C7: if a frame shows no hand and no frame shows a hand in the 5 seconds
\* that follow, a restart is signalled when they elapse, also when further
\* frames without a hand are handled meanwhile: the first frame without a
\* hand of a stall never gets older than 5 seconds.
C7_NoLandmarksRestart == noHandAge <= NoLandmarksDelay

\* C8: the watchdog clock is moved by frames with a hand only: a watchdog
\* check more than 3 seconds after the last frame with a hand signals a
\* restart, even if frames without a hand are still handled.
C8_WatchdogClock ==
    (last.op = "stuckCheck" /\ handAge > StuckThreshold) => last.signal

\* the watchdog intervals running
StuckIntervals == {t \in timers : t.kind = "stuck"}

\* C9: after a restart signal the watchdog starts afresh: no second signal is
\* issued before a further stall of full length, the shortest being the 3
\* seconds of the watchdog check.  Stated of a service with one watchdog
\* interval, as initialize leaves it when called once.
C9_NoDuplicateRestart ==
    [][(last'.signal /\ signalAge # -1 /\ Cardinality(StuckIntervals) = 1)
          => signalAge >= StuckThreshold]_vars

\* C10: a callback scheduled before a reset (here a cool-down callback pending
\* when startCalibration is called) is cancelled by it and never runs.
C10_StaleCallbacksCancelled == ~last.stale

\* C25: at most one watchdog interval and at most one started camera exist
\* at any time.
C25_SingleIntervalAndCamera ==
    /\ Cardinality(StuckIntervals) <= 1
    /\ running <= 1

\* C26: from the return of stopCamera until initialize runs again, no camera
\* is started and no restart signal is issued.
C26_StoppedStaysStopped ==
    [][(stopped /\ stopped') =>
          /\ cameraStartAttempts' = cameraStartAttempts
          /\ running' <= running
          /\ ~last'.signal]_vars


(* ------------------------ the frame-rate limiter ---------------------- *)
\* line 80, in the test of line 79: lastFrameProcessed after a frame that is
\* forwarded or not, as the gap to now
LastFrameProcessedAlways(forward, gap) == 0
LastFrameProcessed(forward, gap) == IF forward THEN 0 ELSE gap

\* history: the window after a frame is forwarded gap ms after the one
\* before.  A window is followed from any forwarded frame for 1 second.
Forwarded(w, gap) ==
    IF w.age = -1
    THEN {NoWindow, [age |-> 0, n |-> 1, gap |-> gap]}
    ELSE {[w EXCEPT !.n = IF w.n <= processingFrameRate THEN w.n + 1 ELSE w.n,
                    !.gap = gap]}

\* onFrame of a started camera, lines 76-85: the frame is sent to the pose
\* model or dropped
onFrame ==
    LET forward == Forwards(sinceForward)
    IN  /\ isReady
        /\ running > 0
        /\ sinceForward' = LastFrameProcessed(forward, sinceForward)
        /\ IF Watching("queue")
           THEN /\ forward => inFlight < MaxInFlight
                /\ inFlight' = IF forward THEN inFlight + 1 ELSE inFlight
                /\ last' = Step(IF forward THEN "forward" ELSE "drop")
                /\ win' = win
           ELSE /\ win' \in IF forward THEN Forwarded(win, sinceForward) ELSE {win}
                /\ UNCHANGED <<inFlight, last>>
        /\ UNCHANGED svcVars
        /\ UNCHANGED <<watch, runAll, runNZ, twin, runSince, firstCal, firedAge, stopped, hold, scene, noHandAge, handAge, signalAge>>
        /\ UNCHANGED <<clsVars, gameVars, compVars, pageVars>>

\* hands.send resolves, line 82: the pose model has analysed a frame
SendDone ==
    /\ inFlight > 0
    /\ inFlight' = inFlight - 1
    /\ last' = Step("other")
    /\ UNCHANGED svcVars
    /\ UNCHANGED <<watch, runAll, runNZ, twin, runSince, firstCal, firedAge, stopped, hold, scene, noHandAge, handAge, signalAge>>
    /\ UNCHANGED <<clsVars, sinceForward, win, gameVars, compVars, pageVars>>

\* one millisecond passes
Millisecond ==
    /\ sinceForward' = OlderGap(sinceForward)
    /\ win' = IF win.age = -1 THEN win
              ELSE IF win.age + 1 >= 1000 THEN NoWindow
              ELSE [win EXCEPT !.age = win.age + 1]
    /\ last' = IF Watching("queue") THEN Step("other") ELSE last
    /\ UNCHANGED svcVars
    /\ UNCHANGED <<watch, runAll, runNZ, twin, runSince, firstCal, firedAge, stopped, hold, scene, noHandAge, handAge, signalAge>>
    /\ UNCHANGED <<clsVars, inFlight, gameVars, compVars, pageVars>>

\* The limiter: the service is initialised, its camera starts and delivers
\* frames at any rate.
NextLimiter ==
    \/ Mount
    \/ LoadLibs
    \/ onFrame
    \/ Millisecond

\* with the history of a window of 1 second
SpecLimiter == Start("window") /\ [][NextLimiter]_vars

\* with the frames in flight and the history of the last step
NextQueue ==
    \/ Mount
    \/ LoadLibs
    \/ onFrame
    \/ SendDone
    \/ Millisecond

SpecQueue == Start("queue") /\ [][NextQueue]_vars

\* C13: any two frames forwarded to the pose model are more than 1000/15 ms
\* apart, and at most 15 frames are forwarded in any window of 1 second.
C13_RateLimited ==
    /\ win.gap # -1 => win.gap * 15 > 1000
    /\ win.n <= 15

\* 15 frames were forwarded within 1 second
C13_Witness == win.n = 15 /\ win.age < 1000

\* C14: a frame that arrives before the interval has elapsed changes no
\* state of the service and is not queued.
C14_DroppedFrameNoEffect ==
    [][last'.op = "drop" => UNCHANGED <<svcVars, sinceForward, inFlight>>]_vars

\* a frame was dropped while another was with the pose model
C14_Witness == last.op = "drop" /\ inFlight > 0 /\ sinceForward > 0

(* ------------------------------ the game ------------------------------ *)
\* The moves makeChoice is called with, and the moves of the opponent.
UserMoves == {0, 1, 2, 7}
AiMoves == {1, 2}

\* line 475, the upper limit left out
ValidMoveNoUpper(userMove) == ~(userMove < 1)

\* line 475
ValidMove(userMove) == ~(userMove < 1 \/ userMove > 6)

GameTimer(kind, left) == [kind |-> kind, left |-> left]

\* the out handlers with setInnings(2) left out
PlayerOutSameInnings(g) ==
    IF g.target = -1
    THEN [g EXCEPT !.target = IF g.userBatting THEN g.playerScore + 1
                                ELSE g.aiScore + 1,
                   !.userBatting = ~g.userBatting,
                   !.isOut = FALSE,
                   !.gameState = IF g.userBatting THEN "bowling" ELSE "batting",
                   !.ballsPlayed = 0]
    ELSE [g EXCEPT !.isOut = TRUE, !.gameState = "gameOver"]

\* handleBattingPlayerOut and handleBowlingPlayerOut, lines 508-548, after
\* setIsOut(true) of handlePlayerOut, line 499
PlayerOut(g) ==
    IF g.target = -1
    THEN [g EXCEPT !.target = IF g.userBatting THEN g.playerScore + 1
                                ELSE g.aiScore + 1,
                   !.userBatting = ~g.userBatting,
                   !.isOut = FALSE,
                   !.gameState = IF g.userBatting THEN "bowling" ELSE "batting",
                   !.innings = 2,
                   !.ballsPlayed = 0]
    ELSE [g EXCEPT !.isOut = TRUE, !.gameState = "gameOver"]

\* updateScores with the move of the user added to whichever side is batting
UpdatedScoresUserMove(g, userMove, aiMove, over) ==
    LET scored == IF g.userBatting
                  THEN [g EXCEPT !.playerScore = g.playerScore + userMove]
                  ELSE [g EXCEPT !.aiScore = g.aiScore + userMove]
    IN  IF over THEN [scored EXCEPT !.gameState = "gameOver"] ELSE scored

\* updateScores, lines 551-584; over is the result of isGameOver
UpdatedScores(g, userMove, aiMove, over) ==
    LET scored == IF g.userBatting
                  THEN [g EXCEPT !.playerScore = g.playerScore + userMove]
                  ELSE [g EXCEPT !.aiScore = g.aiScore + aiMove]
    IN  IF over THEN [scored EXCEPT !.gameState = "gameOver"] ELSE scored

\* makeChoice(userMove, aiMove), lines 474-494.  out and over are the results
\* of isPlayerOut and isGameOver of game-utils.
makeChoice(userMove, aiMove, out, over) ==
    IF ~ValidMove(userMove)
    THEN /\ call' = [op |-> "makeChoice", move |-> userMove, threw |-> TRUE, out |-> FALSE]
         /\ UNCHANGED <<game, gameTimers>>
    ELSE LET chosen == [game EXCEPT !.playerChoice = userMove,
                                    !.aiChoice = aiMove,
                                    !.ballsPlayed = game.ballsPlayed + 1]
         IN  /\ (~out /\ game.userBatting) => game.playerScore + userMove <= MaxScore
             /\ (~out /\ ~game.userBatting) => game.aiScore + aiMove <= MaxScore
             /\ game.ballsPlayed < MaxBalls
             /\ call' = [op |-> "makeChoice", move |-> userMove, threw |-> FALSE, out |-> out]
             /\ game' = IF out THEN PlayerOut(chosen)
                        ELSE UpdatedScores(chosen, userMove, aiMove, over)
             /\ gameTimers' =
                   IF out /\ game.target = -1
                   THEN gameTimers \cup {GameTimer("clearOut", OutClearDelay)}
                   ELSE IF ~out /\ ~over
                   THEN gameTimers \cup {GameTimer("clear", ClearDelay)}
                   ELSE gameTimers

\* a call of makeChoice: the move of the opponent is drawn, and isPlayerOut
\* and isGameOver are asked, for a move that passes line 475 only
MakeChoice ==
    /\ \E userMove \in UserMoves :
          IF ValidMove(userMove)
          THEN \E aiMove \in AiMoves : \E out \in BOOLEAN :
                  \E over \in IF out THEN {FALSE} ELSE BOOLEAN :
                      makeChoice(userMove, aiMove, out, over)
          ELSE makeChoice(userMove, 1, FALSE, FALSE)
    /\ UNCHANGED serviceSide

\* resetGame(), lines 456-468
resetGame ==
    /\ game' = initialState
    /\ call' = NoCall
    /\ UNCHANGED gameTimers
    /\ UNCHANGED serviceSide

\* the state startGame(battingFirst) leaves, lines 587-596
Started(g, battingFirst) ==
    [g EXCEPT !.userBatting = battingFirst,
              !.gameState = IF battingFirst THEN "batting" ELSE "bowling",
              !.ballsPlayed = 0,
              !.playerChoice = 0,
              !.aiChoice = 0,
              !.isOut = FALSE]

\* startGame(battingFirst), lines 587-596
startGame ==
    \E battingFirst \in BOOLEAN :
        /\ game' = Started(game, battingFirst)
        /\ call' = NoCall
        /\ UNCHANGED gameTimers
        /\ UNCHANGED serviceSide

\* chooseToss(choice), lines 599-614; userWonToss and aiChoice come from
\* Math.random()
chooseToss ==
    \E userWonToss, aiChoice \in BOOLEAN :
        /\ game' = [game EXCEPT
                      !.tossResult = IF userWonToss THEN "You won the toss!"
                                     ELSE "AI won the toss!",
                      !.userBatting = IF userWonToss THEN game.userBatting
                                      ELSE ~aiChoice]
        /\ call' = NoCall
        /\ UNCHANGED gameTimers
        /\ UNCHANGED serviceSide

\* chooseBatOrBowl(choice), lines 617-620
chooseBatOrBowl ==
    \E bat \in BOOLEAN :
        /\ game' = [game EXCEPT !.userBatting = bat,
                                !.gameState = IF bat THEN "batting" ELSE "bowling"]
        /\ call' = NoCall
        /\ UNCHANGED gameTimers
        /\ UNCHANGED serviceSide

\* The game: the calls of GameProvider in any order, in quick succession: the
\* timeouts that clear the choices of a ball (2500 and 3000 ms) are scheduled
\* and none is due yet.
NextGame ==
    \/ MakeChoice
    \/ resetGame
    \/ startGame
    \/ chooseToss
    \/ chooseBatOrBowl

InitGame ==
    /\ Start("game")
    /\ libsLoaded

SpecGame == InitGame /\ [][NextGame]_vars

\* ---------------------------------------------------------------------
\* The Game page (part_000): the gestures the detector passes on reach
\* makeChoice through handleGestureDetected only.  Time is in ticks of 500 ms.

\* the effect of lines 37-53, run after a render in which playerChoice or
\* aiChoice changed: the interval of the previous run is cleared, and with both
\* choices set the countdown restarts
CountdownEffect(g, g2, pg) ==
    IF g2.playerChoice = g.playerChoice /\ g2.aiChoice = g.aiChoice
    THEN pg
    ELSE IF g2.playerChoice # 0 /\ g2.aiChoice # 0
    THEN [pg EXCEPT !.countdown = CountdownFrom, !.interval = CountPeriod]
    ELSE [pg EXCEPT !.interval = -1]

\* the test of line 57 without the countdown
GatedByStateOnly(countdown, gameState) ==
    gameState \in {"batting", "bowling"}

\* the test of line 57
Gated(countdown, gameState) ==
    countdown = 0 /\ gameState \in {"batting", "bowling"}

\* the fields of the game a call of makeChoice writes; seenG is the state the
\* call was rendered with (lines 474-494, 497-549, 551-584)
Written(seenG, out, over) ==
    {"playerChoice", "aiChoice", "ballsPlayed"}
    \cup (IF out
          THEN {"isOut", "gameState"}
               \cup (IF seenG.target = -1
                     THEN {"target", "userBatting", "innings"} ELSE {})
          ELSE {IF seenG.userBatting THEN "playerScore" ELSE "aiScore"}
               \cup (IF over THEN {"gameState"} ELSE {}))

\* makeChoice as the page calls it: the values it reads are those of the
\* render its caller belongs to, the count of balls is a functional update
makeChoiceRendered(seenG, userMove, aiMove, out, over) ==
    LET chosen == [seenG EXCEPT !.playerChoice = userMove,
                                !.aiChoice = aiMove,
                                !.ballsPlayed = game.ballsPlayed + 1]
        result == IF out THEN PlayerOut(chosen)
                  ELSE UpdatedScores(chosen, userMove, aiMove, over)
        written == Written(seenG, out, over)
    IN  [f \in DOMAIN game |-> IF f \in written THEN result[f] ELSE game[f]]

\* the detector accepts a gesture and holds it for 200 ms
\* (HandGestureDetector lines 49-53): the handler it will call is the one of
\* the render shown now
HoldGesture ==
    /\ page.showHandDetector
    /\ held = NoHeld
    /\ \E gesture \in UserMoves :
          held' = [value |-> gesture, countdown |-> page.countdown, game |-> game]
    /\ call' = NoCall
    /\ UNCHANGED <<page, game, gameTimers, besidePage>>

\* handleGestureDetected(gesture), lines 55-68
handleGestureDetected ==
    /\ held # NoHeld
    /\ held' = NoHeld
    /\ IF Gated(held.countdown, held.game.gameState) /\ ValidMove(held.value)
       THEN \E aiMove \in AiMoves : \E out \in BOOLEAN :
               \E over \in IF out THEN {FALSE} ELSE BOOLEAN :
                  LET g2 == makeChoiceRendered(held.game, held.value, aiMove, out, over)
                  IN  /\ g2.playerScore <= MaxScore
                      /\ g2.aiScore <= MaxScore
                      /\ game.ballsPlayed < MaxBalls
                      /\ game' = g2
                      /\ gameTimers' =
                            IF out /\ held.game.target = -1
                            THEN gameTimers \cup {GameTimer("clearOut", OutClearDelay)}
                            ELSE IF ~out /\ ~over
                            THEN gameTimers \cup {GameTimer("clear", ClearDelay)}
                            ELSE gameTimers
                      /\ page' = CountdownEffect(game, g2, page)
                      /\ call' = [op |-> "makeChoice", move |-> held.value, threw |-> FALSE, out |-> out]
       ELSE /\ call' = [op |-> "gesture", move |-> held.value, threw |-> FALSE, out |-> FALSE]
            /\ UNCHANGED <<game, gameTimers, page>>
    /\ UNCHANGED besidePage

\* the timeouts of lines 519-522 and 577-581
ClearChoices ==
    /\ \E t \in gameTimers :
          /\ t.left = 0
          /\ gameTimers' = gameTimers \ {t}
          /\ game' = IF t.kind = "clear"
                     THEN [game EXCEPT !.playerChoice = 0, !.aiChoice = 0,
                                       !.isOut = FALSE]
                     ELSE [game EXCEPT !.playerChoice = 0, !.aiChoice = 0]
    /\ page' = CountdownEffect(game, game', page)
    /\ call' = NoCall
    /\ UNCHANGED <<held, besidePage>>

\* the interval of lines 41-49
CountdownTick ==
    /\ page.interval = 0
    /\ page' = IF page.countdown <= 1
               THEN [page EXCEPT !.countdown = 0, !.interval = -1]
               ELSE [page EXCEPT !.countdown = page.countdown - 1,
                                 !.interval = CountPeriod]
    /\ call' = NoCall
    /\ UNCHANGED <<game, gameTimers, held, besidePage>>

\* handleTossChoice(choice), lines 71-91; the buttons are shown in the toss
\* before the toss is won
handleTossChoice ==
    /\ game.gameState = "toss"
    /\ ~page.wonToss
    /\ \E won, aiChoice \in BOOLEAN :
          IF won
          THEN /\ page' = [page EXCEPT !.wonToss = TRUE]
               /\ UNCHANGED game
          ELSE /\ game' = Started(game, ~aiChoice)
               /\ page' = [CountdownEffect(game, game', page)
                              EXCEPT !.showHandDetector = TRUE]
    /\ call' = NoCall
    /\ UNCHANGED <<gameTimers, held, besidePage>>

\* handleBatBowlChoice(isBatting), lines 95-103
handleBatBowlChoice ==
    /\ game.gameState = "toss"
    /\ page.wonToss
    /\ \E isBatting \in BOOLEAN : game' = Started(game, isBatting)
    /\ page' = [CountdownEffect(game, game', page)
                   EXCEPT !.showHandDetector = TRUE, !.wonToss = FALSE]
    /\ call' = NoCall
    /\ UNCHANGED <<gameTimers, held, besidePage>>

\* the Play Again button, line 213, shown when the game is over
PlayAgain ==
    /\ game.gameState = "gameOver"
    /\ game' = initialState
    /\ page' = CountdownEffect(game, game', page)
    /\ call' = NoCall
    /\ UNCHANGED <<gameTimers, held, besidePage>>

\* 500 ms pass: nothing is due, and no gesture is held that long
PageTick ==
    /\ held = NoHeld
    /\ page.interval # 0
    /\ \A t \in gameTimers : t.left > 0
    /\ \E t \in gameTimers : TRUE
       \/ page.interval > 0
    /\ gameTimers' = {GameTimer(t.kind, t.left - 1) : t \in gameTimers}
    /\ page' = IF page.interval > 0
               THEN [page EXCEPT !.interval = page.interval - 1] ELSE page
    /\ call' = NoCall
    /\ UNCHANGED <<game, held, besidePage>>

NextPage ==
    \/ HoldGesture
    \/ handleGestureDetected
    \/ ClearChoices
    \/ CountdownTick
    \/ handleTossChoice
    \/ handleBatBowlChoice
    \/ PlayAgain
    \/ PageTick

SpecPage == InitGame /\ [][NextPage]_vars

\* C29: a gesture delivered to the Game page leads to a call of makeChoice
\* only if, at the delivery, gameState is batting or bowling, no countdown to
\* the next ball is running and the value is in 1..6; a delivered gesture that
\* leads to no call leaves the state of the game, and the timeouts that clear
\* the choices, unchanged.
C29_GestureGated ==
    [][/\ call'.op = "makeChoice" =>
              /\ game.gameState \in {"batting", "bowling"}
              /\ page.countdown = 0
              /\ call'.move \in 1..6
              /\ game'.playerChoice = call'.move
       /\ call'.op = "gesture" => UNCHANGED <<game, gameTimers>>]_vars

\* a gesture was passed to makeChoice as the first ball of the second innings,
\* after the countdown of the ball before it ran out, and the countdown it
\* starts is running
C29_Witness ==
    /\ call.op = "makeChoice" /\ call.move = 2
    /\ game.innings = 2
    /\ game.ballsPlayed = 1
    /\ game.playerChoice = 2
    /\ page.countdown = CountdownFrom

\* C30: a valid makeChoice(userMove, aiMove) that is not an out adds userMove
\* to playerScore when the user is batting and aiMove to aiScore when the user
\* is bowling, and leaves the score of the other side unchanged; one that is an
\* out changes neither score.
C30_ScoreOfTheBall ==
    [][(call'.op = "makeChoice" /\ ~call'.threw) =>
          IF call'.out
          THEN /\ game'.playerScore = game.playerScore
               /\ game'.aiScore = game.aiScore
          ELSE IF game.userBatting
          THEN /\ game'.playerScore = game.playerScore + game'.playerChoice
               /\ game'.playerChoice = call'.move
               /\ game'.aiScore = game.aiScore
          ELSE /\ game'.aiScore = game.aiScore + game'.aiChoice
               /\ game'.playerScore = game.playerScore]_vars

\* the user bowls 1 against a 2 of the opponent, not an out: the second ball
\* of the opponent, whose score is now 3
C30_Witness ==
    /\ call.op = "makeChoice" /\ ~call.threw /\ ~call.out
    /\ ~game.userBatting
    /\ game.playerChoice = 1
    /\ game.aiChoice = 2
    /\ game.aiScore = 3
    /\ game.playerScore = 0
    /\ game.ballsPlayed = 2

\* C31: whatever the sequence of startGame, makeChoice, chooseToss,
\* chooseBatOrBowl and resetGame, innings is 1 or 2 and target is null exactly
\* when innings is 1; an out with no target sets target to the score of the
\* batting side plus 1, swaps the batting side and moves to innings 2; an out
\* with a target set moves to gameOver.
C31_InningsAndTarget ==
    /\ [](/\ game.innings \in {1, 2}
          /\ game.target = -1 <=> game.innings = 1)
    /\ [][(call'.op = "makeChoice" /\ call'.out) =>
             IF game.target = -1
             THEN /\ game'.target = 1 + (IF game.userBatting THEN game.playerScore
                                         ELSE game.aiScore)
                  /\ game'.userBatting = ~game.userBatting
                  /\ game'.gameState = IF game'.userBatting THEN "batting"
                                       ELSE "bowling"
                  /\ game'.innings = 2
             ELSE /\ game'.gameState = "gameOver"
                  /\ game'.target = game.target
                  /\ game'.innings = game.innings
                  /\ game'.userBatting = game.userBatting]_vars

\* the second out of a game: the user made 2 batting first, the opponent
\* chased 3 and is out on 1
C31_Witness ==
    /\ call.op = "makeChoice" /\ call.out
    /\ game.gameState = "gameOver"
    /\ game.innings = 2
    /\ game.target = 3
    /\ game.playerScore = 2
    /\ game.aiScore = 1
    /\ ~game.userBatting

DetectorTimer(kind, left, value, latest) ==
    [kind |-> kind, left |-> left, value |-> value, latest |-> latest]

DetectorDue(kind) == {t \in detectorTimers : t.kind = kind /\ t.left = 0}

\* the values throttledGestureDetection is called with
EventValues == {0, 1, 2}

SeenStep(op) == [seen EXCEPT !.op = op, !.value = 0, !.accepted = FALSE]

\* startCalibration of the component, lines 73-130: the button is shown
\* while calibrationComplete is false (lines 237-243)
Press ==
    /\ ~detector.calibrationComplete
    /\ detector.presses < MaxPresses
    /\ detector' = [detector EXCEPT !.calibrationComplete = FALSE,
                                    !.countdown = CountdownStart,
                                    !.calibrationLock = TRUE,
                                    !.presses = @ + 1]
    /\ detectorTimers' =
          {[t EXCEPT !.latest = FALSE] : t \in detectorTimers}
             \cup {DetectorTimer("count", CountInterval, 0, TRUE)}
    /\ seen' = [SeenStep("press") EXCEPT !.inLock = TRUE]
    /\ UNCHANGED <<serviceSideOnly, gameVars>>

\* one run of the countdown interval, lines 80-129; at the end of the
\* countdown it calls startCalibration of the service and starts the
\* progress interval, which reaches 100 after 20 runs of 250 ms
CountTick ==
    \E t \in DetectorDue("count") :
        /\ IF detector.countdown <= 1
           THEN /\ detector' = [detector EXCEPT !.countdown = 0,
                                                !.serviceCalibrating = TRUE]
                /\ detectorTimers' =
                      (detectorTimers \ {t})
                         \cup {DetectorTimer("progress", ProgressTime, 0, t.latest),
                               DetectorTimer("serviceCalibration",
                                             ServiceCalibration, 0, FALSE)}
           ELSE /\ detector' = [detector EXCEPT !.countdown = @ - 1]
                /\ detectorTimers' =
                      (detectorTimers \ {t})
                         \cup {[t EXCEPT !.left = CountInterval]}
        /\ seen' = SeenStep("other")
        /\ UNCHANGED <<serviceSideOnly, gameVars>>

\* the progress interval at 100, lines 98-100
ProgressDone ==
    \E t \in DetectorDue("progress") :
        /\ detectorTimers' =
              (detectorTimers \ {t})
                 \cup {DetectorTimer("complete", CompleteDelay, 0, t.latest)}
        /\ seen' = SeenStep("other")
        /\ UNCHANGED <<detector, serviceSideOnly, gameVars>>

\* the timeout of 300 ms, lines 101-121
Complete ==
    \E t \in DetectorDue("complete") :
        /\ detector' = [detector EXCEPT !.calibrationComplete = TRUE]
        /\ detectorTimers' =
              (detectorTimers \ {t})
                 \cup {DetectorTimer("unlock", UnlockDelay, 0, t.latest)}
        /\ seen' = SeenStep("other")
        /\ UNCHANGED <<serviceSideOnly, gameVars>>

\* the timeout of 2000 ms, lines 107-114
Unlock ==
    \E t \in DetectorDue("unlock") :
        /\ detector' = [detector EXCEPT !.calibrationLock = FALSE]
        /\ detectorTimers' = detectorTimers \ {t}
        /\ seen' = [SeenStep("other") EXCEPT
                      !.inLock = IF t.latest THEN FALSE ELSE seen.inLock]
        /\ UNCHANGED <<serviceSideOnly, gameVars>>

\* the timeout of startCalibration of the service, part_001 lines 138-141
ServiceCalibrationEnd ==
    \E t \in DetectorDue("serviceCalibration") :
        /\ detector' = [detector EXCEPT !.serviceCalibrating = FALSE]
        /\ detectorTimers' = detectorTimers \ {t}
        /\ seen' = SeenStep("other")
        /\ UNCHANGED <<serviceSideOnly, gameVars>>

\* line 45, the test of the value left out
AcceptsAnyValue(since, gesture) == since > ThrottleGap

\* line 45
Accepts(since, gesture) == since > ThrottleGap /\ gesture > 0

\* line 50: the value passed to onGestureDetected
Delivered(gesture) == gesture

\* throttledGestureDetection(gesture), lines 34-55, called by the service
\* with an event; the service emits none while it calibrates
GestureEvent(gesture) ==
    LET accepted == /\ ~detector.disabled
                    /\ ~detector.calibrationLock
                    /\ Accepts(detector.sinceGesture, gesture)
    IN  /\ ~detector.serviceCalibrating
        /\ detector' = IF accepted THEN [detector EXCEPT !.sinceGesture = 0]
                       ELSE detector
        /\ detectorTimers' =
              IF accepted
              THEN detectorTimers
                      \cup {DetectorTimer("deliver", DeliverDelay,
                                          Delivered(gesture), FALSE)}
              ELSE detectorTimers
        /\ seen' = [seen EXCEPT
                      !.op = "event", !.value = gesture, !.accepted = accepted,
                      !.pending = IF accepted
                                  THEN @ \cup {[value |-> gesture, age |-> 0]}
                                  ELSE @]
        /\ UNCHANGED <<serviceSideOnly, gameVars>>

ServiceEvent == \E gesture \in EventValues : GestureEvent(gesture)

\* the timeout of 200 ms, lines 49-53: onGestureDetected(gesture)
Deliver ==
    \E t \in DetectorDue("deliver") :
        /\ detectorTimers' = detectorTimers \ {t}
        /\ seen' = [seen EXCEPT
                      !.op = "deliver", !.value = t.value, !.accepted = FALSE,
                      !.pending = @ \ {[value |-> t.value, age |-> DeliverDelay]}]
        /\ UNCHANGED <<detector, serviceSideOnly, gameVars>>

\* the parent renders the component with the other value of disabled
SetDisabled ==
    /\ detector' = [detector EXCEPT !.disabled = ~@]
    /\ seen' = SeenStep("other")
    /\ UNCHANGED <<detectorTimers, serviceSideOnly, gameVars>>

\* a tenth of a second passes; every callback due has run
Decisecond ==
    /\ \A t \in detectorTimers : t.left > 0
    /\ detectorTimers' = {[t EXCEPT !.left = @ - 1] : t \in detectorTimers}
    /\ detector' = [detector EXCEPT
                      !.sinceGesture = IF @ > ThrottleGap THEN @ ELSE @ + 1]
    /\ seen' = [SeenStep("other") EXCEPT
                  !.pending = {[e EXCEPT !.age = IF @ > DeliverDelay THEN @ ELSE @ + 1]
                                 : e \in seen.pending}]
    /\ UNCHANGED <<serviceSideOnly, gameVars>>

NextDetector ==
    \/ Press
    \/ CountTick
    \/ ProgressDone
    \/ Complete
    \/ Unlock
    \/ ServiceCalibrationEnd
    \/ ServiceEvent
    \/ Deliver
    \/ SetDisabled
    \/ Decisecond

SpecDetector == Start("detector") /\ [][NextDetector]_vars

\* C27: onGestureDetected is not invoked in the lock period of the latest
\* press of Start Calibration (from the press, or from the mount, until 2
\* seconds after the calibration of that press completes), nor while the
\* component is disabled.  A lock period whose end is due at the instant of
\* the call counts as over.
C27_NoDeliveryWhileLocked ==
    seen.op = "deliver" =>
        /\ \/ ~seen.inLock
           \/ \E t \in DetectorDue("unlock") : t.latest
        /\ ~detector.disabled

\* C28: the component accepts an event only if its value is above 0 and
\* more than 500 ms have passed since the event accepted before; an accepted
\* event is passed to onGestureDetected once, with its value, 200 ms later,
\* and a rejected event changes nothing.
C28_ThrottledDelivery ==
    [][/\ (seen'.op = "event" /\ seen'.accepted) =>
             /\ seen'.value > 0
             /\ detector.sinceGesture > ThrottleGap
             /\ detector'.sinceGesture = 0
       /\ (seen'.op = "event" /\ ~seen'.accepted) =>
             UNCHANGED <<detector, detectorTimers>>
       /\ seen'.op = "deliver" =>
             [value |-> seen'.value, age |-> DeliverDelay] \in seen.pending
       /\ \A e \in seen'.pending : e.age <= DeliverDelay
      ]_vars

\* an event of value 2 has been passed on, 200 ms after it was accepted
C28_Witness ==
    /\ seen.op = "deliver"
    /\ seen.value = 2
    /\ seen.pending = {}
    /\ detector.sinceGesture = DeliverDelay


(* ---------------------- claims: the camera starts --------------------- *)
\* C11: counting failure retries and watchdog restarts, the service never
\* starts the camera more than maxCameraAttempts times.
C11_StartsBounded == cameraStartAttempts <= maxCameraAttempts

\* what the service lets its caller read of a failure: isInitialized(), lines
\* 144-146; there is no error callback and no error field
FailureReported == ~isReady

\* C12: when the camera start fails on the last allowed attempt, the failure
\* is reported to the caller.
C12_PersistentFailureReported ==
    (camera = "failed" /\ cameraStartAttempts >= maxCameraAttempts)
        => FailureReported

(* --------------------------- the classifier --------------------------- *)
\* detectImprovedGesture is applied to the observation
Classify ==
    /\ cls = -1
    /\ cls' = detectImprovedGesture(obs)
    /\ UNCHANGED <<obs, svcVars, histVars, limVars, gameVars, compVars, pageVars>>

\* the next observation: one fingertip has moved, or landmarks are missing
Observe ==
    /\ cls # -1
    /\ \/ \E f \in AllFingers : \E tip \in TipChoices(f) :
             obs' = [obs EXCEPT !.tips[f] = tip]
       \/ \E n \in {10, LandmarkCount} : obs' = [obs EXCEPT !.len = n]
    /\ cls' = -1
    /\ UNCHANGED <<svcVars, histVars, limVars, gameVars, compVars, pageVars>>

NextClassify == Classify \/ Observe

InitClassify ==
    /\ Constructed("classify")
    /\ LimiterConstructed
    /\ GameConstructed
    /\ DetectorConstructed
    /\ PageConstructed
    /\ obs \in Observations
    /\ cls = -1

SpecClassify == InitClassify /\ [][NextClassify]_vars

\* the five flags of the observation classified
Flag(f) == Extended(obs, f)
FlagCount == Cardinality({f \in Fingers : Flag(f)})
Classified == cls # -1 /\ obs.len >= LandmarkCount

C5_FingerCounts ==
    (Classified /\ ~Flag("thumb") /\ FlagCount \in 1..4) => cls = FlagCount

=============================================================================
